---- MODULE Spec2Model ----
(***************************************************************************)
(* Model of tools/compliance/write_sbom.py: the Maven URL and release      *)
(* filename parsers, the MODULE.bazel.lock normalizer, the two SBOM        *)
(* assemblers and the entry point main().                                  *)
(*                                                                         *)
(* Python strings are TLA+ strings; Python lists, and dicts in their       *)
(* iteration order, are sequences; a dict with optional keys is a record   *)
(* whose DOMAIN holds the keys present.                                    *)
(***************************************************************************)
EXTENDS Integers, Sequences, FiniteSets, TLC

VARIABLES
    pc,             \* position of the running program
    opts,           \* parsed command line (main, line 298)
    base_url,       \* os.getenv("BAZEL_PYPI_REPOSITORIES") of the process
    bazel_lock,     \* json.loads of the --bazel_lock file
    dependencies,   \* result of bazel_lock_to_packages
    package_info,   \* json.loads of the --packages_used file
    maven_packages, \* lookup table from the Maven lock file, or None
    sbom,           \* the assembled document
    stderr,         \* lines printed to sys.stderr
    out,            \* the --out file
    error,          \* the exception that ended the run, "" if none
    url,            \* argument of extract_maven_info_from_url
    maven_info      \* its result

vars == <<pc, opts, base_url, bazel_lock, dependencies, package_info,
          maven_packages, sbom, stderr, out, error, url, maven_info>>

(***************************************************************************)
(* Python str methods                                                      *)
(***************************************************************************)

\* s[k:]
Drop(s, k) == SubSeq(s, k + 1, Len(s))

\* s.find(sub): lowest 0-based index of sub in s, -1 when absent
Find(s, sub) ==
    LET hits == {i \in 0..(Len(s) - Len(sub)) : SubSeq(s, i + 1, i + Len(sub)) = sub}
    IN  IF hits = {} THEN -1 ELSE CHOOSE i \in hits : \A j \in hits : i <= j

\* s.startswith(p)
StartsWith(s, p) == Len(p) <= Len(s) /\ SubSeq(s, 1, Len(p)) = p

\* s.endswith(p)
EndsWith(s, p) == Len(p) <= Len(s) /\ SubSeq(s, Len(s) - Len(p) + 1, Len(s)) = p

\* s.lstrip(chars) and s.rstrip(chars), chars a set of one-character strings
RECURSIVE LStrip(_, _)
LStrip(s, chars) ==
    IF Len(s) > 0 /\ SubSeq(s, 1, 1) \in chars THEN LStrip(Drop(s, 1), chars) ELSE s

RECURSIVE RStrip(_, _)
RStrip(s, chars) ==
    IF Len(s) > 0 /\ SubSeq(s, Len(s), Len(s)) \in chars
    THEN RStrip(SubSeq(s, 1, Len(s) - 1), chars)
    ELSE s

\* s.strip(chars)
Strip(s, chars) == RStrip(LStrip(s, chars), chars)

\* the characters str.strip() and str.split() treat as whitespace
Whitespace == {" ", "\t", "\n"}

\* s.split(sep)
RECURSIVE Split(_, _)
Split(s, sep) ==
    LET k == Find(s, sep)
    IN  IF k = -1 THEN <<s>>
        ELSE <<SubSeq(s, 1, k)>> \o Split(Drop(s, k + Len(sep)), sep)

\* s.split(sep, 1)
Split1(s, sep) ==
    LET k == Find(s, sep)
    IN  IF k = -1 THEN <<s>> ELSE <<SubSeq(s, 1, k), Drop(s, k + Len(sep))>>

\* s.split(): the maximal runs of non-whitespace characters
RECURSIVE SplitWS(_)
SplitWS(s) ==
    LET t == LStrip(s, Whitespace)
        ws == {i \in 1..Len(t) : SubSeq(t, i, i) \in Whitespace}
        k == IF ws = {} THEN Len(t) + 1 ELSE CHOOSE i \in ws : \A j \in ws : i <= j
    IN  IF t = "" THEN <<>>
        ELSE <<SubSeq(t, 1, k - 1)>> \o SplitWS(Drop(t, k - 1))

\* sep.join(parts)
RECURSIVE Join(_, _)
Join(parts, sep) ==
    IF parts = <<>> THEN ""
    ELSE IF Len(parts) = 1 THEN parts[1]
    ELSE parts[1] \o sep \o Join(Tail(parts), sep)

\* s.replace(a, b)
Replace(s, a, b) == Join(Split(s, a), b)

UpperCase == "ABCDEFGHIJKLMNOPQRSTUVWXYZ"
LowerCase == "abcdefghijklmnopqrstuvwxyz"

\* s.lower() on ASCII
RECURSIVE Lower(_)
Lower(s) ==
    IF s = "" THEN ""
    ELSE LET c == SubSeq(s, 1, 1)
             k == Find(UpperCase, c)
         IN  (IF k = -1 THEN c ELSE SubSeq(LowerCase, k + 1, k + 1)) \o Lower(Drop(s, 1))

(***************************************************************************)
(* extract_maven_info_from_url (lines 37-62)                               *)
(* The tuple (None, None, None, False) is the record with found = FALSE.   *)
(***************************************************************************)

base_indicators == <<"/maven2/", "/repository/">>

NoMavenInfo ==
    [found |-> FALSE, groupId |-> "", artifactId |-> "", version |-> "", is_sources |-> FALSE]

\* lines 41-46: index just past the first indicator found, -1 when none is
RECURSIVE IndicatorEnd(_, _)
IndicatorEnd(u, i) ==
    IF i > Len(base_indicators) THEN -1
    ELSE LET idx == Find(u, base_indicators[i])
         IN  IF idx >= 0 THEN idx + Len(base_indicators[i]) ELSE IndicatorEnd(u, i + 1)

\* line 51
PathSegments(u) == Split(Strip(Drop(u, IndicatorEnd(u, 1)), {"/"}), "/")

\* fault: line 60 without the replace
ArtifactIdVerbatim(segment) == segment

\* line 60
ArtifactIdOf(segment) == Replace(segment, "_", "-")

\* fault: line 61 slicing segments[:-2]
GroupIdThroughArtifact(segments) == Join(SubSeq(segments, 1, Len(segments) - 2), ".")

\* line 61
GroupIdOf(segments) == Join(SubSeq(segments, 1, Len(segments) - 3), ".")

extract_maven_info_from_url(u) ==
    IF IndicatorEnd(u, 1) = -1 THEN NoMavenInfo
    ELSE LET segments == PathSegments(u)
             n == Len(segments)
         IN  IF n < 4 THEN NoMavenInfo
             ELSE [found |-> TRUE,
                   groupId |-> GroupIdOf(segments),
                   artifactId |-> ArtifactIdOf(segments[n - 2]),
                   version |-> segments[n - 1],
                   is_sources |-> EndsWith(segments[n], "sources.jar")]

(***************************************************************************)
(* Python values                                                           *)
(***************************************************************************)

\* None and a present value: an optional value is a sequence of length <= 1
None == <<>>
Some(x) == <<x>>

\* str(v) of an optional string, as an f-string formats it
Str(v) == IF v = None THEN "None" ELSE v[1]

\* the dict {}
EmptyDict == <<>>

\* d.get(k, default)
Get(d, k, default) == IF k \in DOMAIN d THEN d[k] ELSE default

(***************************************************************************)
(* parse_release_filename (lines 65-78)                                    *)
(* The tuple (None, None) is the record with found = FALSE.                *)
(***************************************************************************)

NoRelease == [found |-> FALSE, name |-> "", version |-> ""]

parse_release_filename(release_filename) ==
    LET version_and_name == Split1(release_filename, "/")
    IN  IF Len(version_and_name) # 2 THEN NoRelease
        ELSE LET version == version_and_name[1]
                 name_with_ext == version_and_name[2]
                 name == IF EndsWith(name_with_ext, ".tar.gz")
                         THEN SubSeq(name_with_ext, 1, Len(name_with_ext) - Len(".tar.gz"))
                         ELSE name_with_ext
             IN  [found |-> TRUE, name |-> Replace(name, "_", "-"), version |-> version]

(***************************************************************************)
(* bazel_lock_to_packages (lines 81-169)                                   *)
(* A walk carries the function's locals: the dependencies list, the        *)
(* seen_python_packages set and the exception raised ("" while none is).   *)
(***************************************************************************)

MAVEN_EXT == "@@rules_jvm_external~//:extensions.bzl%maven"
PIP_EXT == "@@rules_python~//python/extensions:pip.bzl%pip"
PYTHON_EXT == "@@rules_python~//python/extensions:python.bzl%python"

NewWalk == [dependencies |-> <<>>, seen |-> {}, raised |-> ""]

\* lines 92-108: one Maven generated repo spec
MavenEntry(w, dep_info) ==
    LET attributes == Get(dep_info, "attributes", EmptyDict)
        urls == Get(attributes, "urls", <<>>)
    IN  IF urls = <<>> THEN w
        ELSE LET info == extract_maven_info_from_url(urls[1])
             IN  IF ~(info.found /\ info.groupId # "" /\ info.artifactId # ""
                                 /\ info.version # "")
                 THEN w
                 ELSE [w EXCEPT !.dependencies = Append(@,
                         [type |-> "maven",
                          groupId |-> info.groupId,
                          artifactId |-> info.artifactId,
                          version |-> info.version,
                          url |-> urls[1],
                          is_sources |-> info.is_sources])]

\* fault: lines 126 and 157 without the lower()
PackageKeyCaseSensitive(name, version) == <<name, version>>

\* line 126 and line 157
PackageKey(name, version) == <<Lower(name), version>>

\* line 138
PipUrl(base, name, version) ==
    Str(base) \o "/" \o name \o "/" \o version \o "/" \o name \o "-" \o version \o ".tar.gz"

\* lines 120-121: requirement.strip().split()[0], IndexError when there is no token
RequirementParts(requirement) == SplitWS(Strip(requirement, Whitespace))

\* lines 115-139: one pip generated repo spec
PipEntry(w, dep_info, base) ==
    LET attributes == Get(dep_info, "attributes", EmptyDict)
    IN  IF "requirement" \notin DOMAIN attributes \/ attributes["requirement"] = "" THEN w
        ELSE LET requirement_parts == RequirementParts(attributes["requirement"])
             IN  IF requirement_parts = <<>> THEN [w EXCEPT !.raised = "IndexError"]
                 ELSE LET name_version == requirement_parts[1]
                      IN  IF Find(name_version, "==") = -1 THEN w
                          ELSE LET name == Split1(name_version, "==")[1]
                                   version == Split1(name_version, "==")[2]
                                   package_key == PackageKey(name, version)
                               IN  IF package_key \in w.seen THEN w
                                   ELSE [w EXCEPT
                                           !.seen = @ \cup {package_key},
                                           !.dependencies = Append(@,
                                             [type |-> "python",
                                              name |-> name,
                                              version |-> version,
                                              url |-> PipUrl(base, name, version)])]

\* lines 146-167: one direct-download Python generated repo spec
PythonEntry(w, dep_info) ==
    LET attributes == Get(dep_info, "attributes", EmptyDict)
        urls == Get(attributes, "urls", <<>>)
    IN  IF urls = <<>> THEN w
        ELSE IF "release_filename" \notin DOMAIN attributes
                \/ attributes["release_filename"] = "" THEN w
        ELSE LET parsed == parse_release_filename(attributes["release_filename"])
                 package_key == PackageKey(parsed.name, parsed.version)
             IN  IF ~(parsed.found /\ parsed.name # "" /\ parsed.version # "") THEN w
                 ELSE IF package_key \in w.seen THEN w
                 ELSE [w EXCEPT
                         !.seen = @ \cup {package_key},
                         !.dependencies = Append(@,
                           [type |-> "python_no_pip",
                            name |-> parsed.name,
                            version |-> parsed.version,
                            url |-> urls[1]])]

\* line 91: for dep_name, dep_info in generated_repo_specs.items()
RECURSIVE MavenWalk(_, _)
MavenWalk(w, specs) ==
    IF specs = <<>> \/ w.raised # "" THEN w
    ELSE MavenWalk(MavenEntry(w, Head(specs)), Tail(specs))

\* line 114
RECURSIVE PipWalk(_, _, _)
PipWalk(w, specs, base) ==
    IF specs = <<>> \/ w.raised # "" THEN w
    ELSE PipWalk(PipEntry(w, Head(specs), base), Tail(specs), base)

\* line 112: for os_arch_key, os_arch_data in python_pip_extension.items()
RECURSIVE PipPartitions(_, _, _)
PipPartitions(w, partitions, base) ==
    IF partitions = <<>> \/ w.raised # "" THEN w
    ELSE PipPartitions(
           PipWalk(w, Get(Head(partitions), "generatedRepoSpecs", <<>>), base),
           Tail(partitions), base)

\* line 145
RECURSIVE PythonWalk(_, _)
PythonWalk(w, specs) ==
    IF specs = <<>> \/ w.raised # "" THEN w
    ELSE PythonWalk(PythonEntry(w, Head(specs)), Tail(specs))

\* lines 88-90 and 142-144: extension.get("general", {}).get("generatedRepoSpecs", {})
GeneralSpecs(module_extensions, ext) ==
    Get(Get(Get(module_extensions, ext, EmptyDict), "general", EmptyDict),
        "generatedRepoSpecs", <<>>)

\* the function; base is what os.getenv("BAZEL_PYPI_REPOSITORIES") returns
bazel_lock_to_packages(lock, base) ==
    LET module_extensions == Get(lock, "moduleExtensions", EmptyDict)
        w1 == MavenWalk(NewWalk, GeneralSpecs(module_extensions, MAVEN_EXT))
        w2 == PipPartitions(w1, Get(module_extensions, PIP_EXT, <<>>), base)
    IN  PythonWalk(w2, GeneralSpecs(module_extensions, PYTHON_EXT))

(***************************************************************************)
(* create_sbom_from_dependencies (lines 172-271)                           *)
(* The document keeps its name, packages and relationships; the creation   *)
(* timestamp (lines 174-175) is the clock's and no operation reads it.     *)
(***************************************************************************)

Relationship(element, related, kind) ==
    [spdxElementId |-> element, relatedSpdxElement |-> related, relationshipType |-> kind]

KnownTypes == {"maven", "python", "python_no_pip"}

\* lines 201-203, 221 and 251
DepSpdxId(dep) ==
    IF dep.type = "maven"
    THEN "SPDXRef-maven-" \o dep.groupId \o "-" \o dep.artifactId \o "-" \o dep.version
         \o (IF dep.is_sources THEN "-sources" ELSE "")
    ELSE "SPDXRef-Package-" \o dep.name \o "-" \o dep.version

\* lines 204-210, 222-240 and 252-258
DepPackage(dep) ==
    IF dep.type = "maven"
    THEN [SPDXID |-> DepSpdxId(dep),
          downloadLocation |-> dep.url,
          filesAnalyzed |-> FALSE,
          name |-> dep.groupId \o ":" \o dep.artifactId,
          versionInfo |-> dep.version]
    ELSE IF dep.type = "python"
    THEN [SPDXID |-> DepSpdxId(dep),
          downloadLocation |-> "NOASSERTION",
          filesAnalyzed |-> FALSE,
          name |-> dep.name,
          versionInfo |-> dep.version,
          externalRefs |-> <<
              [referenceCategory |-> "PACKAGE-MANAGER",
               referenceType |-> "purl",
               referenceLocator |-> "pkg:pypi/" \o dep.name \o "@" \o dep.version],
              [referenceCategory |-> "OTHER",
               referenceType |-> "URL",
               referenceLocator |-> dep.url]>>]
    ELSE [SPDXID |-> DepSpdxId(dep),
          downloadLocation |-> dep.url,
          filesAnalyzed |-> FALSE,
          name |-> dep.name,
          versionInfo |-> dep.version]

\* fault: lines 195-267 with the final else branch treated as python_no_pip
AddDependencyAnyType(doc, dep) ==
    [doc EXCEPT
        !.packages = Append(@, DepPackage(dep)),
        !.relationships = Append(@,
            Relationship("SPDXRef-DOCUMENT", DepSpdxId(dep), "DESCRIBES"))]

\* lines 195-267: the loop body, on the document built so far
AddDependency(doc, dep) ==
    IF dep.type \in KnownTypes
    THEN [doc EXCEPT
            !.packages = Append(@, DepPackage(dep)),
            !.relationships = Append(@,
                Relationship("SPDXRef-DOCUMENT", DepSpdxId(dep), "DESCRIBES"))]
    ELSE doc

\* line 194: for dep in dependencies
RECURSIVE AddDependencies(_, _)
AddDependencies(doc, deps) ==
    IF deps = <<>> THEN doc
    ELSE AddDependencies(AddDependency(doc, Head(deps)), Tail(deps))

create_sbom_from_dependencies(deps) ==
    AddDependencies(
        [SPDXID |-> "SPDXRef-DOCUMENT",
         name |-> "Generated SBOM",
         packages |-> <<>>,
         relationships |-> <<>>],
        deps)

(***************************************************************************)
(* create_sbom (lines 321-397)                                             *)
(***************************************************************************)

\* lines 363-365: hashlib.md5(pkg.encode("utf-8")).hexdigest(), tabulated
\* for the package references of the model
MD5Hex(pkg) ==
    CASE pkg = "@maven//:com_example_foo" -> "7a03cfe8a98a966ed4e07758a8af2e67"
      [] pkg = "@maven//:org_apache_commons_commons_lang3" -> "e5889c255c8b54964e5435da1ba74948"
      [] pkg = "@org_apache_tomcat_tomcat_annotations_api_8_0_5//file:file"
             -> "5685960755d5f009086a8251b5c5235f"
      [] pkg = "//tools/compliance:lib" -> "366131d5fba68ebb8b1ec5b4a863b17d"
      [] pkg = "//file:file" -> "ef927ee2b87b015c48d13f4f89707954"

\* line 365
ManifestSpdxId(pkg) == "SPDXRef-GooglePackage-" \o MD5Hex(pkg)

\* line 360
magic_file_suffix == "//file:file"

\* lines 373-380: the key looked up in maven_packages, None when the
\* reference has neither form
LookupKey(pkg) ==
    IF StartsWith(pkg, "@maven//:") THEN Some(Drop(pkg, 9))
    ELSE IF EndsWith(pkg, magic_file_suffix)
    THEN Some(SubSeq(pkg, 2, Len(pkg) - Len(magic_file_suffix)))
    ELSE None

\* lines 362-393: the loop body. maven_packages is None or Some(table);
\* None.get raises AttributeError.
AddReference(r, pkg, table) ==
    LET key == LookupKey(pkg)
        spdxid == ManifestSpdxId(pkg)
        have_maven == IF key # None /\ table # None
                      THEN Get(table[1], key[1], None)
                      ELSE None
        pi == [name |-> pkg,
               downloadLocation |-> IF have_maven # None THEN have_maven.url
                                    ELSE "NOASSERTION",
               SPDXID |-> spdxid]
    IN  IF key # None /\ table = None THEN [r EXCEPT !.raised = "AttributeError"]
        ELSE [r EXCEPT
                !.stderr = IF have_maven # None THEN @ ELSE Append(@, "MISSING " \o pkg),
                !.sbom.packages = Append(@, pi),
                !.sbom.relationships = Append(@,
                    Relationship("SPDXRef-Package-main", spdxid, "CONTAINS"))]

\* line 362: for pkg in package_info["packages"]
RECURSIVE AddReferences(_, _, _)
AddReferences(r, pkgs, table) ==
    IF pkgs = <<>> \/ r.raised # "" THEN r
    ELSE AddReferences(AddReference(r, Head(pkgs), table), Tail(pkgs), table)

\* the function: the document, the lines it printed and the exception it
\* raised ("" when it returned)
create_sbom(info, table) ==
    LET empty == [raised |-> "", stderr |-> <<>>,
                  sbom |-> [SPDXID |-> "SPDXRef-DOCUMENT", name |-> "",
                            packages |-> <<>>, relationships |-> <<>>]]
    IN  IF "top_level_target" \notin DOMAIN info THEN [empty EXCEPT !.raised = "KeyError"]
        ELSE IF "packages" \notin DOMAIN info THEN [empty EXCEPT !.raised = "KeyError"]
        ELSE AddReferences(
               [empty EXCEPT
                  !.sbom.name = info["top_level_target"],
                  !.sbom.relationships =
                      <<Relationship("SPDXRef-DOCUMENT", "SPDXRef-Package-main", "DESCRIBES")>>],
               info["packages"], table)

(***************************************************************************)
(* maven_install_to_packages (called at line 313): builds the lookup       *)
(* table from coordinate to {url} out of the Maven lock file.              *)
(***************************************************************************)

maven_install_to_packages(maven_install) ==
    [k \in DOMAIN maven_install |-> [url |-> maven_install[k].url]]

(***************************************************************************)
(* Inputs                                                                  *)
(***************************************************************************)

MaxSpecs == 2   \* generated repo specs in one lock file
MaxPkgs == 2    \* references in one manifest
MaxDeps == 3    \* records in one dependency list
MaxSegs == 4    \* directory segments of a URL path

SeqsUpTo(S, n) == UNION {[1..k -> S] : k \in 0..n}

\* a file on disk: unreadable, not JSON, or JSON with the given root
Unreadable == [kind |-> "unreadable"]
InvalidJson == [kind |-> "invalid_json"]
JsonFile(v) == [kind |-> "json", value |-> v]

WithAttributes(a) == [attributes |-> a]

MavenUrls ==
    {"https://repo1.maven.org/maven2/com/example/foo-bar/1.2.3/foo-bar-1.2.3.jar",
     "https://repo1.maven.org/maven2/com/example/foo-bar/1.2.3/foo-bar-1.2.3-sources.jar",
     "https://repo1.maven.org/maven2/foo/1.0/foo-1.0.jar",
     "https://example.com/files/foo.jar"}

MavenSpecs ==
    {EmptyDict, WithAttributes([urls |-> <<>>])}
    \cup {WithAttributes([urls |-> <<u>>]) : u \in MavenUrls}

Requirements ==
    {"", "   ", "requests", "requests==2.31.0",
     " Requests==2.31.0 --hash=sha256:abc", "a-b==1"}

PipSpecs ==
    {WithAttributes(EmptyDict)}
    \cup {WithAttributes([requirement |-> r]) : r \in Requirements}

ReleaseFilenames ==
    {"2.31.0/requests.tar.gz", "20231002/cpython_3_11.tar.gz", "b-1/a.tar.gz",
     "cpython.tar.gz"}

PythonSpecs ==
    {WithAttributes([release_filename |-> "20231002/cpython_3_11.tar.gz"]),
     WithAttributes([urls |-> <<"https://files.example.org/archive.tar.gz">>])}
    \cup {WithAttributes([urls |-> <<"https://files.example.org/archive.tar.gz">>,
                          release_filename |-> f]) : f \in ReleaseFilenames}

LockOf(m, p1, p2, d) ==
    [moduleExtensions |->
        (MAVEN_EXT :> [general |-> [generatedRepoSpecs |-> m]])
        @@ (PIP_EXT :> <<[generatedRepoSpecs |-> p1], [generatedRepoSpecs |-> p2]>>)
        @@ (PYTHON_EXT :> [general |-> [generatedRepoSpecs |-> d]])]

SpecCounts == {c \in [1..4 -> 0..MaxSpecs] : c[1] + c[2] + c[3] + c[4] <= MaxSpecs}

BazelLocks ==
    {EmptyDict}
    \cup UNION {{LockOf(m, p1, p2, d) :
                    m \in [1..c[1] -> MavenSpecs], p1 \in [1..c[2] -> PipSpecs],
                    p2 \in [1..c[3] -> PipSpecs], d \in [1..c[4] -> PythonSpecs]}
                : c \in SpecCounts}

BazelLockFiles == {Unreadable, InvalidJson} \cup {JsonFile(l) : l \in BazelLocks}

BaseUrls == {None, Some("https://pypi.example.org/packages")}

References ==
    {"@maven//:com_example_foo",
     "@maven//:org_apache_commons_commons_lang3",
     "@org_apache_tomcat_tomcat_annotations_api_8_0_5//file:file",
     "//tools/compliance:lib",
     "//file:file"}

Manifests ==
    {EmptyDict, [top_level_target |-> "//app:main"]}
    \cup {[top_level_target |-> "//app:main", packages |-> ps] :
            ps \in SeqsUpTo(References, MaxPkgs)}

PackagesUsedFiles == {Unreadable, InvalidJson} \cup {JsonFile(m) : m \in Manifests}

MavenInstalls ==
    {EmptyDict,
     "com_example_foo" :>
        [url |-> "https://repo1.maven.org/maven2/com/example/foo/1.0/foo-1.0.jar",
         sha256 |-> "0a1b"],
     ("com_example_foo" :>
        [url |-> "https://repo1.maven.org/maven2/com/example/foo/1.0/foo-1.0.jar",
         sha256 |-> "0a1b"])
     @@ ("org_apache_tomcat_tomcat_annotations_api_8_0_5" :>
        [url |-> "https://repo1.maven.org/maven2/org/apache/tomcat/tomcat-annotations-api/8.0.5/tomcat-annotations-api-8.0.5.jar",
         sha256 |-> "2c3d"])}

MavenInstallFiles == {Unreadable, InvalidJson} \cup {JsonFile(m) : m \in MavenInstalls}

\* the command lines: with --bazel_lock the other two inputs are never read
\* (line 300), so they are given together or not at all
Options ==
    [bazel_lock : {""},
     packages_used : {None, Some("packages_used.json")},
     maven_install : {"", "maven_install.json"}]
    \cup {[bazel_lock |-> "MODULE.bazel.lock", packages_used |-> None,
           maven_install |-> ""],
          [bazel_lock |-> "MODULE.bazel.lock", packages_used |-> Some("packages_used.json"),
           maven_install |-> "maven_install.json"]}

NoOutput == [opens |-> 0, content |-> None]

(***************************************************************************)
(* main (lines 274-318)                                                    *)
(***************************************************************************)

Init ==
    /\ pc = "start"
    /\ opts \in Options
    /\ base_url \in BaseUrls
    /\ bazel_lock = EmptyDict
    /\ dependencies = <<>>
    /\ package_info = EmptyDict
    /\ maven_packages = None
    /\ sbom = EmptyDict
    /\ stderr = <<>>
    /\ out = NoOutput
    /\ error = ""
    /\ url = ""
    /\ maven_info = NoMavenInfo

\* an uncaught exception ends the process
Raise(e) == pc' = "failed" /\ error' = e

\* lines 300-302
ReadBazelLock ==
    /\ pc = "start"
    /\ opts.bazel_lock # ""
    /\ \E f \in BazelLockFiles :
          IF f.kind = "unreadable" THEN Raise("FileNotFoundError") /\ UNCHANGED bazel_lock
          ELSE IF f.kind = "invalid_json"
          THEN Raise("JSONDecodeError") /\ UNCHANGED bazel_lock
          ELSE bazel_lock' = f.value /\ pc' = "lock_read" /\ UNCHANGED error
    /\ UNCHANGED <<opts, base_url, dependencies, package_info, maven_packages, sbom,
                   stderr, out, url, maven_info>>

\* line 303
Normalize ==
    /\ pc = "lock_read"
    /\ LET w == bazel_lock_to_packages(bazel_lock, base_url)
       IN  IF w.raised # "" THEN Raise(w.raised) /\ UNCHANGED dependencies
           ELSE dependencies' = w.dependencies /\ pc' = "normalized" /\ UNCHANGED error
    /\ UNCHANGED <<opts, base_url, bazel_lock, package_info, maven_packages, sbom,
                   stderr, out, url, maven_info>>

\* line 304
AssembleDependencies ==
    /\ pc = "normalized"
    /\ sbom' = create_sbom_from_dependencies(dependencies)
    /\ pc' = "assembled"
    /\ UNCHANGED <<opts, base_url, bazel_lock, dependencies, package_info,
                   maven_packages, stderr, out, error, url, maven_info>>

\* lines 306-307; open(None) raises TypeError
ReadPackagesUsed ==
    /\ pc = "start"
    /\ opts.bazel_lock = ""
    /\ IF opts.packages_used = None THEN Raise("TypeError") /\ UNCHANGED package_info
       ELSE \E f \in PackagesUsedFiles :
              IF f.kind = "unreadable"
              THEN Raise("FileNotFoundError") /\ UNCHANGED package_info
              ELSE IF f.kind = "invalid_json"
              THEN Raise("JSONDecodeError") /\ UNCHANGED package_info
              ELSE package_info' = f.value /\ pc' = "manifest_read" /\ UNCHANGED error
    /\ UNCHANGED <<opts, base_url, bazel_lock, dependencies, maven_packages, sbom,
                   stderr, out, url, maven_info>>

\* lines 310-313
ReadMavenInstall ==
    /\ pc = "manifest_read"
    /\ opts.maven_install # ""
    /\ \E f \in MavenInstallFiles :
          IF f.kind = "unreadable"
          THEN Raise("FileNotFoundError") /\ UNCHANGED maven_packages
          ELSE IF f.kind = "invalid_json"
          THEN Raise("JSONDecodeError") /\ UNCHANGED maven_packages
          ELSE /\ maven_packages' = Some(maven_install_to_packages(f.value))
               /\ pc' = "maven_read"
               /\ UNCHANGED error
    /\ UNCHANGED <<opts, base_url, bazel_lock, dependencies, package_info, sbom,
                   stderr, out, url, maven_info>>

\* line 315; maven_packages is still None (line 309) without --maven_install
AssembleManifest ==
    /\ IF opts.maven_install = "" THEN pc = "manifest_read" ELSE pc = "maven_read"
    /\ LET r == create_sbom(package_info, maven_packages)
       IN  /\ stderr' = r.stderr
           /\ IF r.raised # "" THEN Raise(r.raised) /\ UNCHANGED sbom
              ELSE sbom' = r.sbom /\ pc' = "assembled" /\ UNCHANGED error
    /\ UNCHANGED <<opts, base_url, bazel_lock, dependencies, package_info,
                   maven_packages, out, url, maven_info>>

\* fault: lines 317-318 run in a finally clause, so also after an exception
WriteOutOnFailure ==
    /\ pc \in {"assembled", "failed"}
    /\ out.opens = 0
    /\ out' = [opens |-> 1, content |-> Some(sbom)]
    /\ pc' = IF pc = "assembled" THEN "done" ELSE "failed"
    /\ UNCHANGED <<opts, base_url, bazel_lock, dependencies, package_info,
                   maven_packages, sbom, stderr, error, url, maven_info>>

\* lines 317-318: open(opts.out, "w") creates or truncates the file, or
\* raises and leaves it alone; json.dumps of a document built from parsed
\* JSON and strings does not raise
WriteOut ==
    /\ pc = "assembled"
    /\ \E writable \in BOOLEAN :
          IF writable
          THEN /\ out' = [opens |-> out.opens + 1, content |-> Some(sbom)]
               /\ pc' = "done"
               /\ UNCHANGED error
          ELSE Raise("PermissionError") /\ UNCHANGED out
    /\ UNCHANGED <<opts, base_url, bazel_lock, dependencies, package_info,
                   maven_packages, sbom, stderr, url, maven_info>>

Next ==
    \/ ReadBazelLock
    \/ Normalize
    \/ AssembleDependencies
    \/ ReadPackagesUsed
    \/ ReadMavenInstall
    \/ AssembleManifest
    \/ WriteOut

Spec == Init /\ [][Next]_vars

(***************************************************************************)
(* The assemblers called directly, on any dependency list and on any       *)
(* manifest with any lookup table                                          *)
(***************************************************************************)

DepRecords ==
    {[type |-> "maven", groupId |-> "com.example", artifactId |-> "foo-bar",
      version |-> "1.2.3", is_sources |-> FALSE,
      url |-> "https://repo1.maven.org/maven2/com/example/foo-bar/1.2.3/foo-bar-1.2.3.jar"],
     [type |-> "maven", groupId |-> "com.example", artifactId |-> "foo-bar",
      version |-> "1.2.3", is_sources |-> TRUE,
      url |-> "https://repo1.maven.org/maven2/com/example/foo-bar/1.2.3/foo-bar-1.2.3-sources.jar"],
     [type |-> "python", name |-> "requests", version |-> "2.31.0",
      url |-> "https://pypi.example.org/packages/requests/2.31.0/requests-2.31.0.tar.gz"],
     [type |-> "python_no_pip", name |-> "cpython-3-11", version |-> "20231002",
      url |-> "https://files.example.org/archive.tar.gz"],
     [type |-> "npm", name |-> "left-pad", version |-> "1.3.0",
      url |-> "https://registry.example.org/left-pad-1.3.0.tgz"]}

Lookups == {None} \cup {Some(maven_install_to_packages(m)) : m \in MavenInstalls}

AssemblerInit ==
    /\ \/ /\ pc = "call_create_sbom_from_dependencies"
          /\ dependencies \in SeqsUpTo(DepRecords, MaxDeps)
          /\ package_info = EmptyDict
          /\ maven_packages = None
       \/ /\ pc = "call_create_sbom"
          /\ dependencies = <<>>
          /\ package_info \in Manifests
          /\ maven_packages \in Lookups
    /\ opts = [bazel_lock |-> "", packages_used |-> None, maven_install |-> ""]
    /\ base_url = None
    /\ bazel_lock = EmptyDict
    /\ sbom = EmptyDict
    /\ stderr = <<>>
    /\ out = NoOutput
    /\ error = ""
    /\ url = ""
    /\ maven_info = NoMavenInfo

CallCreateSbomFromDependencies ==
    /\ pc = "call_create_sbom_from_dependencies"
    /\ sbom' = create_sbom_from_dependencies(dependencies)
    /\ pc' = "returned_from_dependencies"
    /\ UNCHANGED <<opts, base_url, bazel_lock, dependencies, package_info,
                   maven_packages, stderr, out, error, url, maven_info>>

CallCreateSbom ==
    /\ pc = "call_create_sbom"
    /\ LET r == create_sbom(package_info, maven_packages)
       IN  /\ stderr' = r.stderr
           /\ IF r.raised # "" THEN pc' = "raised" /\ error' = r.raised /\ UNCHANGED sbom
              ELSE sbom' = r.sbom /\ pc' = "returned_from_manifest" /\ UNCHANGED error
    /\ UNCHANGED <<opts, base_url, bazel_lock, dependencies, package_info,
                   maven_packages, out, url, maven_info>>

AssemblerNext == CallCreateSbomFromDependencies \/ CallCreateSbom

AssemblerSpec == AssemblerInit /\ [][AssemblerNext]_vars

(***************************************************************************)
(* extract_maven_info_from_url called directly, on URLs built from a host  *)
(* prefix, a marker, directory segments and a file name                    *)
(***************************************************************************)

UrlPrefixes == {"https://repo1.maven.org", "https://nexus.corp/repository/libs"}
UrlMarkers == {"/maven2/", "/repository/", "/files/"}
UrlSegments == {"com", "my_org", "foo_bar", "1.2.3"}
UrlFiles == {"foo-bar-1.2.3.jar", "foo-bar-1.2.3-sources.jar"}

Urls ==
    {p \o m \o Join(dirs, "/") \o "/" \o f :
        p \in UrlPrefixes, m \in UrlMarkers,
        dirs \in SeqsUpTo(UrlSegments, MaxSegs), f \in UrlFiles}

UrlInit ==
    /\ pc = "call_extract_maven_info_from_url"
    /\ url \in Urls
    /\ maven_info = NoMavenInfo
    /\ opts = [bazel_lock |-> "", packages_used |-> None, maven_install |-> ""]
    /\ base_url = None
    /\ bazel_lock = EmptyDict
    /\ dependencies = <<>>
    /\ package_info = EmptyDict
    /\ maven_packages = None
    /\ sbom = EmptyDict
    /\ stderr = <<>>
    /\ out = NoOutput
    /\ error = ""

CallExtractMavenInfo ==
    /\ pc = "call_extract_maven_info_from_url"
    /\ maven_info' = extract_maven_info_from_url(url)
    /\ pc' = "returned_from_extract"
    /\ UNCHANGED <<opts, base_url, bazel_lock, dependencies, package_info,
                   maven_packages, sbom, stderr, out, error, url>>

UrlNext == CallExtractMavenInfo

UrlSpec == UrlInit /\ [][UrlNext]_vars

(***************************************************************************)
(* Properties                                                              *)
(***************************************************************************)

Contains(s, sub) == Find(s, sub) # -1

Indices(s) == 1..Len(s)

PackageIds(doc) == {doc.packages[i].SPDXID : i \in Indices(doc.packages)}

DocumentReturned == pc \in {"returned_from_dependencies", "returned_from_manifest"}

\* C1: in every document either assembler returns, every identifier a
\* relationship names, as source or as target, is SPDXRef-DOCUMENT or the
\* SPDXID of an entry of the document's packages.
GraphClosure ==
    DocumentReturned =>
        \A i \in Indices(sbom.relationships) :
            \A id \in {sbom.relationships[i].spdxElementId,
                       sbom.relationships[i].relatedSpdxElement} :
                id = "SPDXRef-DOCUMENT" \/ id \in PackageIds(sbom)

KnownDeps(deps) == SelectSeq(deps, LAMBDA d : d.type \in KnownTypes)

\* C9: every package of a returned document is the target of a relationship
\* of the same document, at the matching position: DESCRIBES from
\* SPDXRef-DOCUMENT after create_sbom_from_dependencies; CONTAINS from
\* SPDXRef-Package-main after create_sbom, whose relationships start with the
\* one DESCRIBES from SPDXRef-DOCUMENT to SPDXRef-Package-main. Packages follow
\* the input order, and records of unrecognized type add nothing.
EveryPackageConnected ==
    /\ pc = "returned_from_dependencies" =>
          LET known == KnownDeps(dependencies)
          IN  /\ Len(sbom.packages) = Len(known)
              /\ Len(sbom.relationships) = Len(known)
              /\ \A i \in Indices(known) :
                    /\ sbom.packages[i].versionInfo = known[i].version
                    /\ known[i].url \in
                          {sbom.packages[i].downloadLocation}
                          \cup (IF known[i].type = "python"
                                THEN {sbom.packages[i].externalRefs[2].referenceLocator}
                                ELSE {})
                    /\ sbom.relationships[i] =
                          Relationship("SPDXRef-DOCUMENT", sbom.packages[i].SPDXID, "DESCRIBES")
    /\ pc = "returned_from_manifest" =>
          /\ Len(sbom.packages) = Len(package_info.packages)
          /\ Len(sbom.relationships) = Len(sbom.packages) + 1
          /\ sbom.relationships[1] =
                Relationship("SPDXRef-DOCUMENT", "SPDXRef-Package-main", "DESCRIBES")
          /\ \A i \in Indices(sbom.packages) :
                /\ sbom.packages[i].name = package_info.packages[i]
                /\ sbom.relationships[i + 1] =
                      Relationship("SPDXRef-Package-main", sbom.packages[i].SPDXID, "CONTAINS")

\* C9 witness: a list with an unrecognized record between recognized ones
\* has been assembled.
UnknownTypeSkipped ==
    /\ pc = "returned_from_dependencies"
    /\ Len(dependencies) = 3
    /\ dependencies[1].type = "python"
    /\ dependencies[2].type = "npm"
    /\ dependencies[3].type = "maven"
    /\ Len(sbom.packages) = 2

LockMode == opts.bazel_lock # ""

\* bazel_lock_to_packages has just returned its list
Normalized == LockMode /\ pc = "normalized"

\* the exceptions of opening and parsing a top-level file
DocumentLevelErrors == {"TypeError", "FileNotFoundError", "JSONDecodeError", "PermissionError"}

\* C2: once the lock file is parsed, no generated repo spec makes the run
\* fail: a run on a lock file fails only on opening or parsing a file.
SkipAndContinue == (LockMode /\ pc = "failed") => error \in DocumentLevelErrors

ManifestWellFormed == {"top_level_target", "packages"} \subseteq DOMAIN package_info

Resolves(pkg) ==
    /\ LookupKey(pkg) # None
    /\ maven_packages # None
    /\ LookupKey(pkg)[1] \in DOMAIN maven_packages[1]

\* C3: in manifest mode, with or without a Maven lock file, a reference that
\* does not resolve never fails the run: the run fails only on opening or
\* parsing a file, and the assembled document has, for each unresolved
\* reference, a package with downloadLocation NOASSERTION and a notice
\* naming it.
UnresolvedReferencesNotFailures ==
    (~LockMode /\ ManifestWellFormed) =>
        /\ pc = "failed" => error \in DocumentLevelErrors
        /\ pc \in {"assembled", "done"} =>
              /\ Len(sbom.packages) = Len(package_info.packages)
              /\ \A i \in Indices(package_info.packages) :
                    ~Resolves(package_info.packages[i]) =>
                        /\ sbom.packages[i].name = package_info.packages[i]
                        /\ sbom.packages[i].downloadLocation = "NOASSERTION"
                        /\ \E k \in Indices(stderr) :
                              stderr[k] = "MISSING " \o package_info.packages[i]

\* the document the loaded inputs assemble to
AssembledDocument ==
    IF LockMode
    THEN create_sbom_from_dependencies(bazel_lock_to_packages(bazel_lock, base_url).dependencies)
    ELSE create_sbom(package_info, maven_packages).sbom

\* C4: the output file is opened at most once, and only by a run that loaded
\* its inputs and assembled the document without error: a failed run leaves
\* it unopened, a finished run has opened it once and it holds the whole
\* assembled document, and before the end it is untouched.
AllOrNothingOutput ==
    /\ out.opens <= 1
    /\ pc = "failed" => out = NoOutput
    /\ pc = "done" => /\ error = ""
                      /\ out = [opens |-> 1, content |-> Some(sbom)]
                      /\ sbom = AssembledDocument
    /\ pc \notin {"done", "failed"} => out = NoOutput

\* C4 witness: a run has finished and written a document with packages.
DocumentWritten ==
    /\ pc = "done"
    /\ out.opens = 1
    /\ out.content # None
    /\ Len(out.content[1].packages) > 0

IsPython(d) == d.type \in {"python", "python_no_pip"}

PythonRecords(deps) == SelectSeq(deps, IsPython)

KeyOf(d) == <<Lower(d.name), d.version>>

\* the record each Python entry of the lock file yields on its own, in
\* traversal order: the pip partitions, then the direct-download extension
RECURSIVE PipCandidates(_, _)
PipCandidates(specs, base) ==
    IF specs = <<>> THEN <<>>
    ELSE PipEntry(NewWalk, Head(specs), base).dependencies \o PipCandidates(Tail(specs), base)

RECURSIVE PartitionCandidates(_, _)
PartitionCandidates(partitions, base) ==
    IF partitions = <<>> THEN <<>>
    ELSE PipCandidates(Get(Head(partitions), "generatedRepoSpecs", <<>>), base)
         \o PartitionCandidates(Tail(partitions), base)

RECURSIVE DirectCandidates(_)
DirectCandidates(specs) ==
    IF specs = <<>> THEN <<>>
    ELSE PythonEntry(NewWalk, Head(specs)).dependencies \o DirectCandidates(Tail(specs))

PythonCandidates(lock, base) ==
    LET module_extensions == Get(lock, "moduleExtensions", EmptyDict)
    IN  PartitionCandidates(Get(module_extensions, PIP_EXT, <<>>), base)
        \o DirectCandidates(GeneralSpecs(module_extensions, PYTHON_EXT))

\* the elements of s whose (name lowercased, version) no earlier element has
FirstOccurrences(s) ==
    LET first == {i \in Indices(s) : \A j \in 1..(i - 1) : KeyOf(s[j]) # KeyOf(s[i])}
        F[i \in 0..Len(s)] ==
            IF i = 0 THEN <<>>
            ELSE IF i \in first THEN Append(F[i - 1], s[i]) ELSE F[i - 1]
    IN  F[Len(s)]

\* C5: the python and python_no_pip records of the returned list have
\* pairwise distinct (name lowercased, version), and they are exactly the
\* first occurrence of each pair in traversal order, pip partitions before
\* the direct-download extension.
PythonDeduplicated ==
    Normalized =>
        LET kept == PythonRecords(dependencies)
        IN  /\ \A i, j \in Indices(kept) : i # j => KeyOf(kept[i]) # KeyOf(kept[j])
            /\ kept = FirstOccurrences(PythonCandidates(bazel_lock, base_url))

\* C5 witness: a pip entry and a later direct-download entry had the same
\* pair, and the pip record alone was kept.
PipWinsOverDirect ==
    /\ Normalized
    /\ LET cands == PythonCandidates(bazel_lock, base_url)
       IN  /\ Len(cands) = 2
           /\ cands[1].type = "python"
           /\ cands[2].type = "python_no_pip"
           /\ KeyOf(cands[1]) = KeyOf(cands[2])
    /\ PythonRecords(dependencies) # <<>>
    /\ \A i \in Indices(dependencies) : dependencies[i].type = "python"

\* C8: every python record carries the url <base>/<name>/<version>/
\* <name>-<version>.tar.gz with <base> the configured base-index URL, in
\* every environment.
PipUrlFromConfiguredBase ==
    Normalized =>
        \A i \in Indices(dependencies) :
            dependencies[i].type = "python" =>
                /\ base_url # None
                /\ dependencies[i].url =
                      base_url[1] \o "/" \o dependencies[i].name \o "/"
                      \o dependencies[i].version \o "/" \o dependencies[i].name
                      \o "-" \o dependencies[i].version \o ".tar.gz"

\* C10: the packages of the document assembled from a lock file have
\* pairwise distinct SPDXID values.
SpdxIdsDistinct ==
    (LockMode /\ pc \in {"assembled", "done"}) =>
        \A i, j \in Indices(sbom.packages) :
            i # j => sbom.packages[i].SPDXID # sbom.packages[j].SPDXID

Parsed == pc = "returned_from_extract" /\ maven_info.found

\* C6 as stated: neither the groupId nor the artifactId returned for a URL
\* with a marker and at least 4 path segments contains an underscore.
NoUnderscoreInCoordinates ==
    Parsed => ~Contains(maven_info.groupId, "_") /\ ~Contains(maven_info.artifactId, "_")

\* C6: the artifactId returned never contains an underscore; the groupId is
\* the leading segments joined with ".", and contains an underscore exactly
\* when one of those segments does.
NoUnderscoreInArtifactId ==
    Parsed =>
        LET segments == PathSegments(url)
        IN  /\ ~Contains(maven_info.artifactId, "_")
            /\ Contains(maven_info.groupId, "_")
                  <=> \E i \in 1..(Len(segments) - 3) : Contains(segments[i], "_")

\* C6 witness: a URL whose artifact segment and whose group segments both
\* contain underscores has been parsed.
UnderscoredUrlParsed ==
    /\ Parsed
    /\ LET segments == PathSegments(url)
       IN  /\ Contains(segments[Len(segments) - 2], "_")
           /\ Contains(segments[1], "_")

\* C7 as stated: splitting the groupId on "." and appending the artifactId
\* and the version gives back the path segments before the file name.
MavenUrlRoundTrip ==
    Parsed =>
        Split(maven_info.groupId, ".") \o <<maven_info.artifactId, maven_info.version>>
            = SubSeq(PathSegments(url), 1, Len(PathSegments(url)) - 1)

\* s with every underscore turned into a hyphen, character by character
Hyphenated(s, t) ==
    /\ Len(t) = Len(s)
    /\ \A k \in 1..Len(s) :
          SubSeq(t, k, k) = IF SubSeq(s, k, k) = "_" THEN "-" ELSE SubSeq(s, k, k)

\* C7: when no group segment contains ".", splitting the groupId on "." and
\* appending the artifactId and the version gives back the path segments
\* before the file name, with the underscores of the artifact segment
\* turned into hyphens.
MavenUrlRoundTripModuloHyphens ==
    Parsed =>
        LET segments == PathSegments(url)
            n == Len(segments)
            back == Split(maven_info.groupId, ".")
                    \o <<maven_info.artifactId, maven_info.version>>
        IN  (\A i \in 1..(n - 3) : ~Contains(segments[i], ".")) =>
                /\ Len(back) = n - 1
                /\ \A i \in 1..(n - 3) : back[i] = segments[i]
                /\ Hyphenated(segments[n - 2], back[n - 2])
                /\ back[n - 1] = segments[n - 1]

\* C7 witness: a URL with two dot-free group segments has been parsed.
TwoGroupSegmentsParsed ==
    /\ Parsed
    /\ LET segments == PathSegments(url)
       IN  /\ Len(segments) = 5
           /\ ~Contains(segments[1], ".")
           /\ ~Contains(segments[2], ".")
           /\ segments[1] # segments[2]

====
